---- MODULE Spec2Model ----
(***************************************************************************)
(* StoryForge: the draft evaluator's composite score, the excellence       *)
(* enforcer (strategy selection and the accept/discard loop) and the       *)
(* iteration manager (snapshots, best-ever values, metric locks).          *)
(*                                                                         *)
(* Numbers.  A ratio metric is a percentage and is modelled by an integer  *)
(* number of percent.  overallScore carries one decimal place, so it is    *)
(* modelled in tenths of a point (Scale).  JavaScript's NaN, which the     *)
(* evaluator produces when it divides by a zero word or sentence count, is *)
(* the value NaN; every comparison and subtraction goes through the        *)
(* NaN-aware operators below (a comparison with NaN is false).             *)
(***************************************************************************)
EXTENDS Integers, Sequences, FiniteSets, TLC

Scale == 10

NaN == -1000000

IsNaN(x) == x = NaN

Lt(a, b) == ~IsNaN(a) /\ ~IsNaN(b) /\ a < b

Gt(a, b) == ~IsNaN(a) /\ ~IsNaN(b) /\ a > b

Le(a, b) == ~IsNaN(a) /\ ~IsNaN(b) /\ a <= b

Ge(a, b) == ~IsNaN(a) /\ ~IsNaN(b) /\ a >= b

Sub(a, b) == IF IsNaN(a) \/ IsNaN(b) THEN NaN ELSE a - b

Add(a, b) == IF IsNaN(a) \/ IsNaN(b) THEN NaN ELSE a + b

Abs(a) == IF IsNaN(a) THEN NaN ELSE IF a < 0 THEN -a ELSE a

\* Math.round(n / d) for d > 0: the nearest integer, a tie going up.
MathRound(n, d) == (2 * n + d) \div (2 * d)

(***************************************************************************)
(* Draft evaluator.  A text is represented by the features the evaluator   *)
(* extracts from it; Evaluate adds the composite score.                    *)
(***************************************************************************)

\* The integer glue-word percentages at which the double product
\* (100 - g) * 0.15 * 10 falls just below a tie that the exact value hits.
GlueRoundsDown == {23, 33, 43, 59, 69, 91}

GlueWordsScore(g) ==
    IF IsNaN(g) THEN NaN
    ELSE MathRound((100 - g) * 15, 10) - (IF g \in GlueRoundsDown THEN 1 ELSE 0)

ShowVsTellScore(t) == IF IsNaN(t) THEN NaN ELSE MathRound((100 - t) * 25, 10)

DynamicContentScore(d) == IF IsNaN(d) THEN NaN ELSE MathRound(d * 25, 10)

DialogueBonus(dlg) == IF Ge(dlg, 30) /\ Le(dlg, 50) THEN 15 * Scale ELSE 0

AIPatternBonus(n) == IF n = 0 THEN 20 * Scale ELSE 0

\* The breakdown of one text's score, every component in tenths.
CalculateScoreBreakdown(p) ==
    [glueWordsScore      |-> GlueWordsScore(p.glueWords),
     showVsTellScore     |-> ShowVsTellScore(p.showVsTell),
     dynamicContentScore |-> DynamicContentScore(p.dynamicContent),
     dialogueBonus       |-> DialogueBonus(p.dialogueBalance),
     aiPatternBonus      |-> AIPatternBonus(p.aiPatternCount),
     coherencePenalty    |-> p.coherencePenalty * Scale]

\* Math.max(0, Math.min(100, x)), NaN staying NaN.
Clamp(x) == IF IsNaN(x) THEN NaN ELSE IF x < 0 THEN 0 ELSE IF x > 100 * Scale THEN 100 * Scale ELSE x

OverallScore(b) ==
    Clamp(Sub(Add(Add(Add(Add(b.glueWordsScore, b.showVsTellScore),
                          b.dynamicContentScore), b.dialogueBonus), b.aiPatternBonus),
              b.coherencePenalty))

Evaluate(text) ==
    [glueWords         |-> text.glueWords,
     passiveVoice      |-> text.passiveVoice,
     dialogueBalance   |-> text.dialogueBalance,
     showVsTell        |-> text.showVsTell,
     wordRepetition    |-> text.wordRepetition,
     dynamicContent    |-> text.dynamicContent,
     reflectiveContent |-> text.reflectiveContent,
     aiPatternCount    |-> text.aiPatternCount,
     coherencePenalty  |-> text.coherencePenalty,
     overallScore      |-> OverallScore(CalculateScoreBreakdown(text))]

Score(text) == Evaluate(text).overallScore

MkText(g, p, dlg, t, r, dyn, refl, ai, pen) ==
    [glueWords |-> g, passiveVoice |-> p, dialogueBalance |-> dlg, showVsTell |-> t,
     wordRepetition |-> r, dynamicContent |-> dyn, reflectiveContent |-> refl,
     aiPatternCount |-> ai, coherencePenalty |-> pen]

\* count / total * 100 as the ratio metrics compute it, with no guard on the
\* denominator: 0 / 0 is NaN.  (A positive count over 0 does not occur: every
\* counted item is part of a word or sentence.)
Ratio(count, total) == IF total = 0 THEN NaN ELSE (count * 100) \div total

SeverityPenalty(severity) ==
    CASE severity = "high" -> 20
      [] severity = "medium" -> 10
      [] severity = "low" -> 5

RECURSIVE SumPenalties(_)
SumPenalties(issues) ==
    IF issues = <<>> THEN 0 ELSE SeverityPenalty(Head(issues)) + SumPenalties(Tail(issues))

\* "Cap at 40 points".
CalculateCoherencePenalty(issues) ==
    IF SumPenalties(issues) < 40 THEN SumPenalties(issues) ELSE 40

\* The severities of the issues validateCoherence reports: too many fragments
\* (high), one entry per sentence opening repeated more than 3 times (medium),
\* nonsensical word combinations (high, only above 50 words).
ValidateCoherence(c) ==
    (IF c.fragments THEN <<"high">> ELSE <<>>)
    \o [i \in 1..c.repeatedOpenings |-> "medium"]
    \o (IF c.nonsensical /\ c.words > 50 THEN <<"high">> ELSE <<>>)

\* evaluate on a text given by what its tokenizer, sentence splitter and
\* indicator searches count in it.
EvaluateCounts(c) ==
    Evaluate(MkText(Ratio(c.glueCount, c.words),
                    Ratio(c.passiveCount, c.sentences),
                    Ratio(c.dialogueWords, c.totalWords),
                    Ratio(c.tellingCount, c.sentences),
                    Ratio(c.repetitionScore, c.words),
                    Ratio(c.dynamicCount, c.sentences),
                    Ratio(c.reflectiveCount, c.sentences),
                    c.aiPatterns,
                    CalculateCoherencePenalty(ValidateCoherence(c))))

\* The texts evaluate is applied to, by their counts.  Word and sentence counts
\* divide 100, so every ratio is a whole percentage.  A text without a
\* sentence has no word; a text without a word has nothing counted in it.
MaxRepeatedOpenings == 2

CountedTexts ==
    {c \in [words : {0, 1, 4, 100}, sentences : {0, 1, 4, 10},
            totalWords : {0, 1, 4, 100},
            glueCount : {0, 1}, passiveCount : {0, 1}, dialogueWords : {0, 1},
            tellingCount : {0, 1, 3}, repetitionScore : {0}, dynamicCount : {0, 1},
            reflectiveCount : {0}, aiPatterns : {0, 1},
            fragments : BOOLEAN, repeatedOpenings : 0..MaxRepeatedOpenings,
            nonsensical : BOOLEAN] :
        /\ (c.sentences = 0 => c.words = 0)
        /\ (c.words = 0 => /\ c.glueCount = 0 /\ c.passiveCount = 0 /\ c.tellingCount = 0
                           /\ c.dialogueWords = 0 /\ c.aiPatterns = 0
                           /\ ~c.nonsensical /\ c.totalWords \in {0, 1})
        /\ (c.words > 0 => c.totalWords = c.words)
        /\ (c.sentences = 0 => c.dynamicCount = 0 /\ ~c.fragments)
        /\ c.tellingCount <= c.words
        /\ c.repeatedOpenings * 4 <= c.sentences
        /\ (c.nonsensical => c.words > 50)}

\* The empty string.
EmptyCounts ==
    [words |-> 0, sentences |-> 0, totalWords |-> 0, glueCount |-> 0, passiveCount |-> 0,
     dialogueWords |-> 0, tellingCount |-> 0, repetitionScore |-> 0, dynamicCount |-> 0,
     reflectiveCount |-> 0, aiPatterns |-> 0, fragments |-> FALSE, repeatedOpenings |-> 0,
     nonsensical |-> FALSE]

\* needed.push(s) under a condition.
PushIf(cond, s) == IF cond THEN <<s>> ELSE <<>>

\* The summary line, by score band.
SummaryLine(overallScore) ==
    IF Ge(overallScore, 90 * Scale) THEN "excellent"
    ELSE IF Ge(overallScore, 80 * Scale) THEN "good"
    ELSE "significant"

\* generateSuggestions: each line is named by the metric it is about.  The
\* report carries a coherence issue exactly when its penalty is positive.
GenerateSuggestions(metrics) ==
    PushIf(Gt(metrics.glueWords, 40), "glueWords")
    \o PushIf(Gt(metrics.passiveVoice, 5), "passiveVoice")
    \o PushIf(Lt(metrics.dialogueBalance, 30) \/ Gt(metrics.dialogueBalance, 50), "dialogueBalance")
    \o PushIf(Gt(metrics.showVsTell, 10), "showVsTell")
    \o PushIf(Lt(metrics.dynamicContent, 70), "dynamicContent")
    \o PushIf(metrics.aiPatternCount > 0, "aiPatterns")
    \o PushIf(metrics.coherencePenalty > 0, "coherence")
    \o <<SummaryLine(metrics.overallScore)>>


(***************************************************************************)
(* Excellence enforcer: the strategy catalogue and determineStrategies.    *)
(***************************************************************************)

STRATEGIES ==
    [ai_pattern_eliminator |->
        [name |-> "AI Pattern Eliminator", targetMetrics |-> <<"aiPatternCount">>, priority |-> 10],
     show_vs_tell_converter |->
        [name |-> "Show vs Tell Converter", targetMetrics |-> <<"showVsTell">>, priority |-> 9],
     dialogue_fixer |->
        [name |-> "Dialogue Fixer", targetMetrics |-> <<"dialogueBalance">>, priority |-> 8],
     glue_word_reducer |->
        [name |-> "Glue Word Reducer", targetMetrics |-> <<"glueWords">>, priority |-> 7],
     dynamic_content_booster |->
        [name |-> "Dynamic Content Booster", targetMetrics |-> <<"dynamicContent">>, priority |-> 7],
     passive_voice_eliminator |->
        [name |-> "Passive Voice Eliminator", targetMetrics |-> <<"passiveVoice">>, priority |-> 6],
     sentence_variation_enhancer |->
        [name |-> "Sentence Variation Enhancer",
         targetMetrics |-> <<"wordRepetition", "overallScore">>, priority |-> 5],
     sensory_detail_enhancer |->
        [name |-> "Sensory Detail Enhancer",
         targetMetrics |-> <<"dynamicContent", "showVsTell">>, priority |-> 5]]

\* The rule table with the sensory-detail rule firing at dynamic content 75 too.
NeededStrategiesSensoryAt75(metrics) ==
    PushIf(metrics.aiPatternCount > 0, STRATEGIES.ai_pattern_eliminator)
    \o PushIf(Gt(metrics.showVsTell, 10), STRATEGIES.show_vs_tell_converter)
    \o PushIf(Lt(metrics.dialogueBalance, 30) \/ Gt(metrics.dialogueBalance, 50),
              STRATEGIES.dialogue_fixer)
    \o PushIf(Gt(metrics.glueWords, 40), STRATEGIES.glue_word_reducer)
    \o PushIf(Lt(metrics.dynamicContent, 70), STRATEGIES.dynamic_content_booster)
    \o PushIf(Gt(metrics.passiveVoice, 5), STRATEGIES.passive_voice_eliminator)
    \o PushIf(Lt(metrics.overallScore, 90 * Scale), STRATEGIES.sentence_variation_enhancer)
    \o PushIf(Le(metrics.dynamicContent, 75) \/ Gt(metrics.showVsTell, 8),
              STRATEGIES.sensory_detail_enhancer)

\* The rule table of determineStrategies, in its declared order, before sorting.
NeededStrategies(metrics) ==
    PushIf(metrics.aiPatternCount > 0, STRATEGIES.ai_pattern_eliminator)
    \o PushIf(Gt(metrics.showVsTell, 10), STRATEGIES.show_vs_tell_converter)
    \o PushIf(Lt(metrics.dialogueBalance, 30) \/ Gt(metrics.dialogueBalance, 50),
              STRATEGIES.dialogue_fixer)
    \o PushIf(Gt(metrics.glueWords, 40), STRATEGIES.glue_word_reducer)
    \o PushIf(Lt(metrics.dynamicContent, 70), STRATEGIES.dynamic_content_booster)
    \o PushIf(Gt(metrics.passiveVoice, 5), STRATEGIES.passive_voice_eliminator)
    \o PushIf(Lt(metrics.overallScore, 90 * Scale), STRATEGIES.sentence_variation_enhancer)
    \o PushIf(Lt(metrics.dynamicContent, 75) \/ Gt(metrics.showVsTell, 8),
              STRATEGIES.sensory_detail_enhancer)

\* An unstable sort: x goes before the elements of its own priority.
InsertBeforeEqualPriority(sorted, x) ==
    LET k == Cardinality({i \in 1..Len(sorted) : sorted[i].priority > x.priority})
    IN  SubSeq(sorted, 1, k) \o <<x>> \o SubSeq(sorted, k + 1, Len(sorted))

\* x inserted into a list sorted by descending priority, after every element
\* whose priority is not lower (Array.prototype.sort is stable).
InsertByPriority(sorted, x) ==
    LET k == Cardinality({i \in 1..Len(sorted) : sorted[i].priority >= x.priority})
    IN  SubSeq(sorted, 1, k) \o <<x>> \o SubSeq(sorted, k + 1, Len(sorted))

RECURSIVE SortByPriority(_)
SortByPriority(needed) ==
    IF needed = <<>> THEN <<>>
    ELSE InsertByPriority(SortByPriority(SubSeq(needed, 1, Len(needed) - 1)),
                          needed[Len(needed)])

DetermineStrategies(metrics) == SortByPriority(NeededStrategies(metrics))

\* Array.prototype.slice(0, n) for n >= 0.
Slice(s, n) == SubSeq(s, 1, IF n < Len(s) THEN n ELSE Len(s))

(***************************************************************************)
(* applyStrategy.  The rewriter either fails or returns a text.            *)
(***************************************************************************)

RewriteFailed == [ok |-> FALSE]

Rewritten(t) == [ok |-> TRUE, text |-> t]

NoError == "undefined"

ZeroImprovement ==
    [overallScoreDelta |-> 0, glueWordsDelta |-> 0, showVsTellDelta |-> 0,
     dynamicContentDelta |-> 0, dialogueBalanceDelta |-> 0, aiPatternsDelta |-> 0]

MetricImprovement(originalMetrics, improvedMetrics) ==
    [overallScoreDelta    |-> Sub(improvedMetrics.overallScore, originalMetrics.overallScore),
     glueWordsDelta       |-> Sub(originalMetrics.glueWords, improvedMetrics.glueWords),
     showVsTellDelta      |-> Sub(originalMetrics.showVsTell, improvedMetrics.showVsTell),
     dynamicContentDelta  |-> Sub(improvedMetrics.dynamicContent, originalMetrics.dynamicContent),
     dialogueBalanceDelta |-> Sub(Abs(Sub(improvedMetrics.dialogueBalance, 40)),
                                  Abs(Sub(originalMetrics.dialogueBalance, 40))),
     aiPatternsDelta      |-> originalMetrics.aiPatternCount - improvedMetrics.aiPatternCount]

ApplyStrategy(text, strategy, response) ==
    LET originalMetrics == Evaluate(text)
    IN  IF response.ok
        THEN [strategy        |-> strategy.name,
              originalText    |-> text,
              improvedText    |-> response.text,
              originalMetrics |-> originalMetrics,
              improvedMetrics |-> Evaluate(response.text),
              improvement     |-> MetricImprovement(originalMetrics, Evaluate(response.text)),
              success         |-> TRUE,
              error           |-> NoError]
        ELSE [strategy        |-> strategy.name,
              originalText    |-> text,
              improvedText    |-> text,
              originalMetrics |-> originalMetrics,
              improvedMetrics |-> originalMetrics,
              improvement     |-> ZeroImprovement,
              success         |-> FALSE,
              error           |-> "Unknown error"]

(***************************************************************************)
(* enforceExcellence: the accept/discard decision and the early stop.      *)
(***************************************************************************)

\* Every successful rewrite kept, whatever its score.
KeepEverySuccess(result) == result.success

\* "Keep improvement if score increased (or stayed same ...)".
KeepImprovement(result) == result.success /\ Ge(result.improvement.overallScoreDelta, 0)

\* The current text and the accumulated improvement after one attempt.
AfterAttempt(current, total, result) ==
    IF KeepImprovement(result)
    THEN [currentText |-> result.improvedText,
          totalImprovement |-> total + result.improvement.overallScoreDelta]
    ELSE [currentText |-> current, totalImprovement |-> total]

\* The early stop left out.
NeverStopEarly(current) == FALSE

\* "Stop if we've reached target (90%+)".
TargetScoreReached(current) == Ge(Score(current), 90 * Scale)

StrategiesToApply(text, maxStrategies) ==
    Slice(DetermineStrategies(Evaluate(text)), maxStrategies)


(***************************************************************************)
(* Iteration manager: constants, construction and the helpers of           *)
(* runIteration.                                                           *)
(***************************************************************************)

MAX_ITERATIONS == 15

\* A target one point above the overallScore lock's threshold.
TargetScoreAboveLockThreshold == 91 * Scale

TARGET_SCORE == 90 * Scale

METRIC_TARGETS ==
    [overallScore |-> 90 * Scale, glueWords |-> 40, passiveVoice |-> 5,
     dialogueBalanceMin |-> 30, dialogueBalanceMax |-> 50, showVsTell |-> 10,
     wordRepetition |-> 2, dynamicContent |-> 70, aiPatternCount |-> 0]

\* lockedAt of a lock that was never assigned one.
Undefined == -1

InitializeBestEver(metrics) ==
    [overallScore      |-> metrics.overallScore,
     glueWords         |-> metrics.glueWords,
     passiveVoice      |-> metrics.passiveVoice,
     dialogueBalance   |-> metrics.dialogueBalance,
     showVsTell        |-> metrics.showVsTell,
     wordRepetition    |-> metrics.wordRepetition,
     dynamicContent    |-> metrics.dynamicContent,
     reflectiveContent |-> metrics.reflectiveContent,
     aiPatternCount    |-> metrics.aiPatternCount,
     iteration         |-> 0]

MetricLock(metric, targetValue, currentValue, locked) ==
    [metric |-> metric, targetValue |-> targetValue, currentValue |-> currentValue,
     locked |-> locked, lockedAt |-> Undefined]

InitializeLocks(metrics) ==
    << MetricLock("overallScore", METRIC_TARGETS.overallScore, metrics.overallScore,
                  Ge(metrics.overallScore, METRIC_TARGETS.overallScore)),
       MetricLock("glueWords", METRIC_TARGETS.glueWords, metrics.glueWords,
                  Lt(metrics.glueWords, METRIC_TARGETS.glueWords)),
       MetricLock("passiveVoice", METRIC_TARGETS.passiveVoice, metrics.passiveVoice,
                  Lt(metrics.passiveVoice, METRIC_TARGETS.passiveVoice)),
       MetricLock("dialogueBalance", 40, metrics.dialogueBalance,
                  Ge(metrics.dialogueBalance, METRIC_TARGETS.dialogueBalanceMin)
                  /\ Le(metrics.dialogueBalance, METRIC_TARGETS.dialogueBalanceMax)),
       MetricLock("showVsTell", METRIC_TARGETS.showVsTell, metrics.showVsTell,
                  Lt(metrics.showVsTell, METRIC_TARGETS.showVsTell)),
       MetricLock("dynamicContent", METRIC_TARGETS.dynamicContent, metrics.dynamicContent,
                  Gt(metrics.dynamicContent, METRIC_TARGETS.dynamicContent)),
       MetricLock("aiPatternCount", METRIC_TARGETS.aiPatternCount, metrics.aiPatternCount,
                  metrics.aiPatternCount = METRIC_TARGETS.aiPatternCount) >>

\* The switch without its aiPatternCount case.
LockViolatedIgnoringPatterns(lock, newMetrics) ==
    CASE lock.metric = "overallScore" ->
             Lt(newMetrics.overallScore, Sub(lock.currentValue, 1 * Scale))
      [] lock.metric = "glueWords" ->
             Gt(newMetrics.glueWords, Add(lock.currentValue, 2))
      [] lock.metric = "passiveVoice" ->
             Gt(newMetrics.passiveVoice, Add(lock.currentValue, 1))
      [] lock.metric = "dialogueBalance" ->
             Lt(newMetrics.dialogueBalance, METRIC_TARGETS.dialogueBalanceMin)
             \/ Gt(newMetrics.dialogueBalance, METRIC_TARGETS.dialogueBalanceMax)
      [] lock.metric = "showVsTell" ->
             Gt(newMetrics.showVsTell, Add(lock.currentValue, 2))
      [] lock.metric = "dynamicContent" ->
             Lt(newMetrics.dynamicContent, Sub(lock.currentValue, 3))
      [] OTHER -> FALSE

\* The switch with a glue-word tolerance of 5 instead of 2.
LockViolatedWideGlue(lock, newMetrics) ==
    CASE lock.metric = "overallScore" ->
             Lt(newMetrics.overallScore, Sub(lock.currentValue, 1 * Scale))
      [] lock.metric = "glueWords" ->
             Gt(newMetrics.glueWords, Add(lock.currentValue, 5))
      [] lock.metric = "passiveVoice" ->
             Gt(newMetrics.passiveVoice, Add(lock.currentValue, 1))
      [] lock.metric = "dialogueBalance" ->
             Lt(newMetrics.dialogueBalance, METRIC_TARGETS.dialogueBalanceMin)
             \/ Gt(newMetrics.dialogueBalance, METRIC_TARGETS.dialogueBalanceMax)
      [] lock.metric = "showVsTell" ->
             Gt(newMetrics.showVsTell, Add(lock.currentValue, 2))
      [] lock.metric = "dynamicContent" ->
             Lt(newMetrics.dynamicContent, Sub(lock.currentValue, 3))
      [] lock.metric = "aiPatternCount" ->
             newMetrics.aiPatternCount > lock.currentValue
      [] OTHER -> FALSE

\* The switch of checkLockViolations: whether newMetrics regresses one lock.
LockViolated(lock, newMetrics) ==
    CASE lock.metric = "overallScore" ->
             Lt(newMetrics.overallScore, Sub(lock.currentValue, 1 * Scale))
      [] lock.metric = "glueWords" ->
             Gt(newMetrics.glueWords, Add(lock.currentValue, 2))
      [] lock.metric = "passiveVoice" ->
             Gt(newMetrics.passiveVoice, Add(lock.currentValue, 1))
      [] lock.metric = "dialogueBalance" ->
             Lt(newMetrics.dialogueBalance, METRIC_TARGETS.dialogueBalanceMin)
             \/ Gt(newMetrics.dialogueBalance, METRIC_TARGETS.dialogueBalanceMax)
      [] lock.metric = "showVsTell" ->
             Gt(newMetrics.showVsTell, Add(lock.currentValue, 2))
      [] lock.metric = "dynamicContent" ->
             Lt(newMetrics.dynamicContent, Sub(lock.currentValue, 3))
      [] lock.metric = "aiPatternCount" ->
             newMetrics.aiPatternCount > lock.currentValue
      [] OTHER -> FALSE

MetricsOf(lockSeq) == [i \in 1..Len(lockSeq) |-> lockSeq[i].metric]

CheckLockViolations(lockSeq, newMetrics) ==
    MetricsOf(SelectSeq(lockSeq, LAMBDA lock : lock.locked /\ LockViolated(lock, newMetrics)))

\* The best score's iteration moved on ties as well.
UpdateBestEverOnTies(best, metrics, iteration) ==
    [overallScore      |-> IF Ge(metrics.overallScore, best.overallScore)
                           THEN metrics.overallScore ELSE best.overallScore,
     iteration         |-> IF Ge(metrics.overallScore, best.overallScore)
                           THEN iteration ELSE best.iteration,
     glueWords         |-> IF Lt(metrics.glueWords, best.glueWords)
                           THEN metrics.glueWords ELSE best.glueWords,
     passiveVoice      |-> IF Lt(metrics.passiveVoice, best.passiveVoice)
                           THEN metrics.passiveVoice ELSE best.passiveVoice,
     showVsTell        |-> IF Lt(metrics.showVsTell, best.showVsTell)
                           THEN metrics.showVsTell ELSE best.showVsTell,
     wordRepetition    |-> IF Lt(metrics.wordRepetition, best.wordRepetition)
                           THEN metrics.wordRepetition ELSE best.wordRepetition,
     aiPatternCount    |-> IF metrics.aiPatternCount < best.aiPatternCount
                           THEN metrics.aiPatternCount ELSE best.aiPatternCount,
     dynamicContent    |-> IF Gt(metrics.dynamicContent, best.dynamicContent)
                           THEN metrics.dynamicContent ELSE best.dynamicContent,
     reflectiveContent |-> IF Gt(metrics.reflectiveContent, best.reflectiveContent)
                           THEN metrics.reflectiveContent ELSE best.reflectiveContent,
     dialogueBalance   |-> IF Lt(Abs(Sub(metrics.dialogueBalance, 40)),
                                 Abs(Sub(best.dialogueBalance, 40)))
                           THEN metrics.dialogueBalance ELSE best.dialogueBalance]

UpdateBestEver(best, metrics, iteration) ==
    [overallScore      |-> IF Gt(metrics.overallScore, best.overallScore)
                           THEN metrics.overallScore ELSE best.overallScore,
     iteration         |-> IF Gt(metrics.overallScore, best.overallScore)
                           THEN iteration ELSE best.iteration,
     glueWords         |-> IF Lt(metrics.glueWords, best.glueWords)
                           THEN metrics.glueWords ELSE best.glueWords,
     passiveVoice      |-> IF Lt(metrics.passiveVoice, best.passiveVoice)
                           THEN metrics.passiveVoice ELSE best.passiveVoice,
     showVsTell        |-> IF Lt(metrics.showVsTell, best.showVsTell)
                           THEN metrics.showVsTell ELSE best.showVsTell,
     wordRepetition    |-> IF Lt(metrics.wordRepetition, best.wordRepetition)
                           THEN metrics.wordRepetition ELSE best.wordRepetition,
     aiPatternCount    |-> IF metrics.aiPatternCount < best.aiPatternCount
                           THEN metrics.aiPatternCount ELSE best.aiPatternCount,
     dynamicContent    |-> IF Gt(metrics.dynamicContent, best.dynamicContent)
                           THEN metrics.dynamicContent ELSE best.dynamicContent,
     reflectiveContent |-> IF Gt(metrics.reflectiveContent, best.reflectiveContent)
                           THEN metrics.reflectiveContent ELSE best.reflectiveContent,
     dialogueBalance   |-> IF Lt(Abs(Sub(metrics.dialogueBalance, 40)),
                                 Abs(Sub(best.dialogueBalance, 40)))
                           THEN metrics.dialogueBalance ELSE best.dialogueBalance]

\* The switch of updateLocks: the value recorded for a lock and whether it locks.
NewValue(metric, metrics) ==
    CASE metric = "overallScore"    -> metrics.overallScore
      [] metric = "glueWords"       -> metrics.glueWords
      [] metric = "passiveVoice"    -> metrics.passiveVoice
      [] metric = "dialogueBalance" -> metrics.dialogueBalance
      [] metric = "showVsTell"      -> metrics.showVsTell
      [] metric = "dynamicContent"  -> metrics.dynamicContent
      [] metric = "aiPatternCount"  -> metrics.aiPatternCount
      [] OTHER -> 0

ShouldLock(metric, metrics) ==
    CASE metric = "overallScore"    -> Ge(metrics.overallScore, METRIC_TARGETS.overallScore)
      [] metric = "glueWords"       -> Lt(metrics.glueWords, METRIC_TARGETS.glueWords)
      [] metric = "passiveVoice"    -> Lt(metrics.passiveVoice, METRIC_TARGETS.passiveVoice)
      [] metric = "dialogueBalance" ->
             Ge(metrics.dialogueBalance, METRIC_TARGETS.dialogueBalanceMin)
             /\ Le(metrics.dialogueBalance, METRIC_TARGETS.dialogueBalanceMax)
      [] metric = "showVsTell"      -> Lt(metrics.showVsTell, METRIC_TARGETS.showVsTell)
      [] metric = "dynamicContent"  -> Gt(metrics.dynamicContent, METRIC_TARGETS.dynamicContent)
      [] metric = "aiPatternCount"  -> metrics.aiPatternCount = METRIC_TARGETS.aiPatternCount
      [] OTHER -> FALSE

\* Every lock re-evaluated on each commit, locked or not.
UpdateLockReevaluated(lock, metrics, iteration) ==
    [lock EXCEPT !.currentValue = NewValue(lock.metric, metrics),
                 !.locked = ShouldLock(lock.metric, metrics),
                 !.lockedAt = IF ShouldLock(lock.metric, metrics)
                              THEN iteration ELSE lock.lockedAt]

\* A locked lock following the value of each committed snapshot.
UpdateLockFollowingValue(lock, metrics, iteration) ==
    IF lock.locked THEN [lock EXCEPT !.currentValue = NewValue(lock.metric, metrics)]
    ELSE [lock EXCEPT !.currentValue = NewValue(lock.metric, metrics),
                      !.locked = ShouldLock(lock.metric, metrics),
                      !.lockedAt = IF ShouldLock(lock.metric, metrics)
                                   THEN iteration ELSE lock.lockedAt]

UpdateLock(lock, metrics, iteration) ==
    IF lock.locked THEN lock
    ELSE [lock EXCEPT !.currentValue = NewValue(lock.metric, metrics),
                      !.locked = ShouldLock(lock.metric, metrics),
                      !.lockedAt = IF ShouldLock(lock.metric, metrics)
                                   THEN iteration ELSE lock.lockedAt]

UpdateLocks(lockSeq, metrics, iteration) ==
    [i \in 1..Len(lockSeq) |-> UpdateLock(lockSeq[i], metrics, iteration)]

GetLockedMetrics(lockSeq) == MetricsOf(SelectSeq(lockSeq, LAMBDA lock : lock.locked))

\* Snapshots numbered from 1.
SnapshotNumberedFromOne(iteration, text, metrics, strategies, locked) ==
    [iteration |-> iteration + 1, text |-> text, metrics |-> metrics,
     strategies |-> strategies, locked |-> locked]

Snapshot(iteration, text, metrics, strategies, locked) ==
    [iteration |-> iteration, text |-> text, metrics |-> metrics,
     strategies |-> strategies, locked |-> locked]


(***************************************************************************)
(* The texts of the model.  Each is given by the features the evaluator    *)
(* computes from it (glue, passive, dialogue, telling, repetition,         *)
(* dynamic, reflective, pattern count, coherence penalty).                 *)
(***************************************************************************)

\* Two patterns, telling and glue words over their thresholds: score 35.8
Draft == MkText(45, 10, 10, 30, 3, 40, 50, 2, 0)

\* No pattern, nothing else on target: score 55.8
Plain == MkText(45, 10, 10, 30, 3, 40, 50, 0, 0)

\* The same score as Plain with fewer glue words and more telling: 55.8
PlainLean == MkText(35, 10, 10, 36, 3, 40, 50, 0, 0)

\* One pattern, everything else on target: score 68.1
Patterned == MkText(38, 4, 40, 5, 1, 80, 30, 1, 0)

\* On target except passive voice: score 85.1
Polished == MkText(38, 8, 40, 9, 1, 72, 30, 0, 0)

\* The same score as Polished; glue words and dynamic content just off target: 85.1
Slack == MkText(40, 4, 40, 5, 1, 69, 30, 0, 0)

\* Score 90.8, every threshold met
Excellent == MkText(20, 3, 40, 5, 1, 80, 30, 0, 0)

\* Score 93 with passive voice over its threshold and dynamic content under 75
Unsaturated == MkText(0, 8, 40, 0, 1, 72, 30, 0, 0)

\* The empty string: no word and no sentence, every ratio is 0/0
EmptyText == MkText(NaN, NaN, NaN, NaN, NaN, NaN, NaN, 0, 0)

\* The texts a controller is constructed on and the rewriter answers with.
Texts == {Plain, PlainLean, Patterned, Polished, Slack, Excellent, EmptyText}

Responses == {RewriteFailed} \cup {Rewritten(t) : t \in Texts}

\* The texts enforceExcellence is called on directly, and its rewriter's answers.
EnforcerTexts == Texts \cup {Draft, Unsaturated}

EnforcerResponses == {RewriteFailed} \cup {Rewritten(t) : t \in EnforcerTexts}

\* The metrics reports determineStrategies is applied to: every combination of
\* values around each threshold, and the reports of the texts above.
FeatureTexts ==
    {MkText(g, p, dlg, t, 1, dyn, 30, ai, pen) :
        g \in {0, 39, 40, 41}, p \in {4, 5, 6}, dlg \in {29, 30, 50, 51},
        t \in {0, 8, 9, 10, 11}, dyn \in {69, 70, 71, 74, 75, 100},
        ai \in {0, 1}, pen \in {0, 20}}

MetricsReports == {Evaluate(t) : t \in FeatureTexts \cup EnforcerTexts}

\* The texts enforceExcellence is called on: the named ones, and every
\* combination above that scores 90 or more.
EnforceInputs == EnforcerTexts \cup {t \in FeatureTexts : Ge(Score(t), 90 * Scale)}

\* maxStrategies ranges over 1..MaxStrategiesArg (the routes accept 1..5).
MaxStrategiesArg == 2

(***************************************************************************)
(* enforceExcellence as the controller sees it: every result the call can  *)
(* return, over all behaviours of the rewriter.                            *)
(***************************************************************************)

EnforceAttempt(st, strategy, response) ==
    LET result == ApplyStrategy(st.currentText, strategy, response)
        after  == AfterAttempt(st.currentText, st.totalImprovement, result)
    IN  [currentText      |-> after.currentText,
         strategies       |-> Append(st.strategies, result.strategy),
         totalImprovement |-> after.totalImprovement,
         stopped          |-> TargetScoreReached(after.currentText)]

RECURSIVE EnforceLoop(_, _, _)
EnforceLoop(todo, frontier, responses) ==
    IF todo = <<>> THEN frontier
    ELSE EnforceLoop(Tail(todo),
                     {st \in frontier : st.stopped}
                     \cup {EnforceAttempt(st, Head(todo), r) :
                              st \in {f \in frontier : ~f.stopped}, r \in responses},
                     responses)

EnforceExcellence(text, maxStrategies, responses) ==
    {[finalText |-> st.currentText, strategies |-> st.strategies,
      totalImprovement |-> st.totalImprovement] :
        st \in EnforceLoop(StrategiesToApply(text, maxStrategies),
                           {[currentText |-> text, strategies |-> <<>>,
                             totalImprovement |-> 0, stopped |-> FALSE]},
                           responses)}

(***************************************************************************)
(* The rewriter's retry helper.                                            *)
(***************************************************************************)

MAX_RETRIES == 3

RETRY_DELAY == 2000

\* How one run of the operation can end: a response carrying a text, or an
\* error with an HTTP status and an error code (0 and "none" when it has none).
OperationOutcomes ==
    {[ok |-> TRUE, text |-> t] : t \in {Plain, Polished, Excellent}}
    \cup [ok : {FALSE}, status : {0, 429, 500},
          code : {"none", "rate_limit_exceeded", "invalid_api_key"}]

NoOutcome == [ok |-> FALSE, status |-> 0, code |-> "not called"]

\* Every failure treated as retryable.
IsRateLimitOrAnyError(error) == TRUE

\* "Check if error is rate limit".
IsRateLimit(error) == error.status = 429 \/ error.code = "rate_limit_exceeded"

(***************************************************************************)
(* State.                                                                  *)
(***************************************************************************)
VARIABLES
    currentText,        \* IterationManager.currentText
    snapshots,          \* history.snapshots
    bestEver,           \* history.bestEver
    locks,              \* history.locks
    targetReached,      \* history.targetReached
    totalIterations,    \* history.totalIterations
    finalScore,         \* history.finalScore
    totalImprovement,   \* history.totalImprovement
    lastResult,         \* what the last runIteration call returned
    lastEnforce,        \* what enforceExcellence returned to that call, if it was called
    loop,               \* runUntilTarget: its position, shouldContinue, the calls it made
    eText, eMax,        \* a direct enforceExcellence call: text and maxStrategies
    eStrategies,        \*   strategiesToApply
    eCurrentText,       \*   currentText
    eResults,           \*   results
    eTotalImprovement,  \*   totalImprovement
    eCalls,             \*   the rewriter calls made so far: weakness strategy and text
    ePc,                \*   "loop" while strategies remain, then "returned"
    dsMetrics,          \* a direct determineStrategies call: its argument
    dsNeeded,           \*   its result
    dsPc,               \*   "called" or "returned"
    dsSuggestions,      \*   what generateSuggestions returns for the same report
    evCounts,           \* a direct evaluate call: its text, by its counts
    evMetrics,          \*   the metrics it returns
    evPc,               \*   "called" or "returned"
    rtRetries,          \* a retryWithBackoff call: the retries left
    rtOutcomes,         \*   how each run of the operation ended, in order
    rtDelay,            \*   the time spent waiting between runs, in ms
    rtResult,           \*   the response returned or the error thrown
    rtPc                \*   "running", "returned" or "threw"

ctrlVars == <<currentText, snapshots, bestEver, locks, targetReached, totalIterations,
              finalScore, totalImprovement>>

callVars == <<lastResult, lastEnforce, loop>>

enfVars == <<eText, eMax, eStrategies, eCurrentText, eResults, eTotalImprovement, eCalls, ePc>>

dsVars == <<dsMetrics, dsNeeded, dsPc, dsSuggestions>>

evVars == <<evCounts, evMetrics, evPc>>

rtVars == <<rtRetries, rtOutcomes, rtDelay, rtResult, rtPc>>

vars == <<ctrlVars, callVars, enfVars, dsVars, evVars, rtVars>>


(***************************************************************************)
(* Iteration manager: construction, runIteration, runUntilTarget.          *)
(***************************************************************************)

Constructor(initialText) ==
    LET initialMetrics == Evaluate(initialText)
    IN  /\ currentText = initialText
        /\ snapshots = <<Snapshot(0, initialText, initialMetrics, <<>>, <<>>)>>
        /\ bestEver = InitializeBestEver(initialMetrics)
        /\ locks = InitializeLocks(initialMetrics)
        /\ targetReached = Ge(initialMetrics.overallScore, TARGET_SCORE)
        /\ totalIterations = 0
        /\ finalScore = initialMetrics.overallScore
        /\ totalImprovement = 0

GetCurrentSnapshot == snapshots[Len(snapshots)]

GetCurrentMetrics == GetCurrentSnapshot.metrics

\* The value runIteration returns; snapshot is given by its iteration index.
IterationResult(success, improved, snapshot, shouldContinue, message, violations) ==
    [success |-> success, improved |-> improved, snapshot |-> snapshot.iteration,
     shouldContinue |-> shouldContinue, message |-> message, violations |-> violations]

NoResult ==
    [success |-> FALSE, improved |-> FALSE, snapshot |-> 0, shouldContinue |-> FALSE,
     message |-> "none", violations |-> <<>>]

NotCalled == [called |-> FALSE, threw |-> FALSE]

Threw == [called |-> TRUE, threw |-> TRUE]

Returned(res) == [called |-> TRUE, threw |-> FALSE, result |-> res]

\* "Check if we should stop": the iteration budget is used up.
StopAtMaxIterations ==
    /\ totalIterations >= MAX_ITERATIONS
    /\ lastResult' = IterationResult(FALSE, FALSE, GetCurrentSnapshot, FALSE,
                                     "Maximum iterations reached", <<>>)
    /\ lastEnforce' = NotCalled
    /\ UNCHANGED ctrlVars

\* The target score was reached before this call.
StopAtTarget ==
    /\ totalIterations < MAX_ITERATIONS
    /\ targetReached
    /\ lastResult' = IterationResult(TRUE, FALSE, GetCurrentSnapshot, FALSE,
                                     "Target score already reached", <<>>)
    /\ lastEnforce' = NotCalled
    /\ UNCHANGED ctrlVars

\* A rejection that counts as an iteration.
RejectIterationCounted(res) ==
    LET newMetrics     == Evaluate(res.finalText)
        lockViolations == CheckLockViolations(locks, newMetrics)
    IN  /\ Len(lockViolations) > 0
        /\ lastResult' = IterationResult(FALSE, FALSE, GetCurrentSnapshot, TRUE,
                                         "Lock violations. Reverted changes.",
                                         lockViolations)
        /\ lastEnforce' = Returned(res)
        /\ totalIterations' = totalIterations + 1
        /\ UNCHANGED <<currentText, snapshots, bestEver, locks, targetReached,
                       finalScore, totalImprovement>>

\* The enforcement result violates a lock: "Revert - don't update text".
RejectIteration(res) ==
    LET newMetrics     == Evaluate(res.finalText)
        lockViolations == CheckLockViolations(locks, newMetrics)
    IN  /\ Len(lockViolations) > 0
        /\ lastResult' = IterationResult(FALSE, FALSE, GetCurrentSnapshot, TRUE,
                                         "Lock violations. Reverted changes.",
                                         lockViolations)
        /\ lastEnforce' = Returned(res)
        /\ UNCHANGED ctrlVars

\* A commit that also takes over a result scoring the same as before.
CommitIterationReplacingOnTie(res) ==
    LET iterationNumber == totalIterations + 1
        previousMetrics == GetCurrentMetrics
        newMetrics      == Evaluate(res.finalText)
        lockViolations  == CheckLockViolations(locks, newMetrics)
        improved        == Ge(newMetrics.overallScore, previousMetrics.overallScore)
        newLocks        == UpdateLocks(locks, newMetrics, iterationNumber)
        snapshot        == Snapshot(iterationNumber, res.finalText, newMetrics,
                                    res.strategies, GetLockedMetrics(newLocks))
        reached         == Ge(newMetrics.overallScore, TARGET_SCORE)
    IN  /\ Len(lockViolations) = 0
        /\ bestEver' = UpdateBestEver(bestEver, newMetrics, iterationNumber)
        /\ locks' = newLocks
        /\ snapshots' = Append(snapshots, snapshot)
        /\ totalIterations' = iterationNumber
        /\ finalScore' = newMetrics.overallScore
        /\ totalImprovement' = totalImprovement + res.totalImprovement
        /\ targetReached' = reached
        /\ currentText' = IF improved THEN res.finalText ELSE currentText
        /\ lastResult' = IterationResult(TRUE, improved, snapshot,
                                         ~reached /\ iterationNumber < MAX_ITERATIONS,
                                         IF improved THEN "Improved" ELSE "No improvement",
                                         <<>>)
        /\ lastEnforce' = Returned(res)

\* The enforcement result violates no lock: the iteration is committed.
CommitIteration(res) ==
    LET iterationNumber == totalIterations + 1
        previousMetrics == GetCurrentMetrics
        newMetrics      == Evaluate(res.finalText)
        lockViolations  == CheckLockViolations(locks, newMetrics)
        improved        == Gt(newMetrics.overallScore, previousMetrics.overallScore)
        newLocks        == UpdateLocks(locks, newMetrics, iterationNumber)
        snapshot        == Snapshot(iterationNumber, res.finalText, newMetrics,
                                    res.strategies, GetLockedMetrics(newLocks))
        reached         == Ge(newMetrics.overallScore, TARGET_SCORE)
    IN  /\ Len(lockViolations) = 0
        /\ bestEver' = UpdateBestEver(bestEver, newMetrics, iterationNumber)
        /\ locks' = newLocks
        /\ snapshots' = Append(snapshots, snapshot)
        /\ totalIterations' = iterationNumber
        /\ finalScore' = newMetrics.overallScore
        /\ totalImprovement' = totalImprovement + res.totalImprovement
        /\ targetReached' = reached
        /\ currentText' = IF improved THEN res.finalText ELSE currentText
        /\ lastResult' = IterationResult(TRUE, improved, snapshot,
                                         ~reached /\ iterationNumber < MAX_ITERATIONS,
                                         IF improved THEN "Improved" ELSE "No improvement",
                                         <<>>)
        /\ lastEnforce' = Returned(res)

\* A caught fault that uses up an iteration.
CatchFaultCounted ==
    /\ lastResult' = IterationResult(FALSE, FALSE, GetCurrentSnapshot, TRUE, "Error", <<>>)
    /\ lastEnforce' = Threw
    /\ totalIterations' = totalIterations + 1
    /\ UNCHANGED <<currentText, snapshots, bestEver, locks, targetReached,
                   finalScore, totalImprovement>>

\* A fault thrown inside the try block while enforcing is caught.
CatchFault ==
    /\ lastResult' = IterationResult(FALSE, FALSE, GetCurrentSnapshot, TRUE, "Error", <<>>)
    /\ lastEnforce' = Threw
    /\ UNCHANGED ctrlVars

\* runIteration without its "target already reached" return.
RunIterationWithoutTargetCheck(maxStrategies) ==
    \/ StopAtMaxIterations
    \/ /\ totalIterations < MAX_ITERATIONS
       /\ \/ CatchFault
          \/ \E res \in EnforceExcellence(currentText, maxStrategies, Responses) :
                RejectIteration(res) \/ CommitIteration(res)

RunIteration(maxStrategies) ==
    \/ StopAtMaxIterations
    \/ StopAtTarget
    \/ /\ totalIterations < MAX_ITERATIONS
       /\ ~targetReached
       /\ \/ CatchFault
          \/ \E res \in EnforceExcellence(currentText, maxStrategies, Responses) :
                RejectIteration(res) \/ CommitIteration(res)

\* The caller, as the iterate route is: it constructs a manager and passes the
\* same maxStrategies on every call; it either calls runUntilTarget at once or
\* calls runIteration itself.  loop is the position of runUntilTarget: idle
\* until called, running while it loops, then returned.
LoopIdle(maxStrategies) ==
    [pc |-> "idle", shouldContinue |-> FALSE, calls |-> 0, maxStrategies |-> maxStrategies]

\* A caller invokes runIteration itself (the iterate route's fixed-count loop).
CallRunIteration ==
    /\ loop.pc = "idle"
    /\ RunIteration(loop.maxStrategies)
    /\ UNCHANGED loop

RunUntilTargetCall ==
    /\ loop.pc = "idle"
    /\ lastResult = NoResult
    /\ loop' = [loop EXCEPT !.pc = "running", !.shouldContinue = TRUE]
    /\ UNCHANGED <<ctrlVars, lastResult, lastEnforce>>

\* The while loop continuing on shouldContinue alone.
RunUntilTargetIterateIgnoringSuccess ==
    /\ loop.pc = "running"
    /\ loop.shouldContinue
    /\ RunIteration(loop.maxStrategies)
    /\ loop' = [loop EXCEPT !.calls = @ + 1,
                            !.shouldContinue = lastResult'.shouldContinue]

\* One pass of the while loop: a runIteration call and the new shouldContinue.
RunUntilTargetIterate ==
    /\ loop.pc = "running"
    /\ loop.shouldContinue
    /\ RunIteration(loop.maxStrategies)
    /\ loop' = [loop EXCEPT !.calls = @ + 1,
                            !.shouldContinue = lastResult'.shouldContinue
                                               /\ lastResult'.success]

RunUntilTargetReturn ==
    /\ loop.pc = "running"
    /\ ~loop.shouldContinue
    /\ loop' = [loop EXCEPT !.pc = "returned"]
    /\ UNCHANGED <<ctrlVars, lastResult, lastEnforce>>

EnforcerIdle ==
    /\ eText = currentText
    /\ eMax = 0
    /\ eStrategies = <<>>
    /\ eCurrentText = currentText
    /\ eResults = <<>>
    /\ eTotalImprovement = 0
    /\ eCalls = <<>>
    /\ ePc = "idle"

DetermineIdle ==
    /\ dsMetrics = Evaluate(currentText)
    /\ dsNeeded = <<>>
    /\ dsPc = "idle"
    /\ dsSuggestions = <<>>

RetryIdle ==
    /\ rtRetries = MAX_RETRIES
    /\ rtOutcomes = <<>>
    /\ rtDelay = 0
    /\ rtResult = NoOutcome
    /\ rtPc = "idle"

EvaluatorIdle ==
    /\ evCounts = EmptyCounts
    /\ evMetrics = EvaluateCounts(EmptyCounts)
    /\ evPc = "idle"

Init ==
    /\ \E initialText \in Texts : Constructor(initialText)
    /\ lastResult = NoResult
    /\ lastEnforce = NotCalled
    /\ \E maxStrategies \in 1..MaxStrategiesArg : loop = LoopIdle(maxStrategies)
    /\ EnforcerIdle
    /\ DetermineIdle
    /\ EvaluatorIdle
    /\ RetryIdle

Next ==
    /\ \/ CallRunIteration
       \/ RunUntilTargetCall
       \/ RunUntilTargetIterate
       \/ RunUntilTargetReturn
    /\ UNCHANGED <<enfVars, dsVars, evVars, rtVars>>

Spec == Init /\ [][Next]_vars

\* Each rewriter call returns or fails, and the loop's own steps are taken.
FairSpec ==
    /\ Spec
    /\ WF_vars(RunUntilTargetIterate /\ UNCHANGED <<enfVars, dsVars, evVars, rtVars>>)
    /\ WF_vars(RunUntilTargetReturn /\ UNCHANGED <<enfVars, dsVars, evVars, rtVars>>)


(***************************************************************************)
(* enforceExcellence called directly (the enhance and test routes), one    *)
(* rewriter call per step.                                                 *)
(***************************************************************************)

InitEnforce ==
    /\ \E text \in EnforceInputs, maxStrategies \in 1..MaxStrategiesArg :
          /\ eText = text
          /\ eMax = maxStrategies
          /\ eStrategies = StrategiesToApply(text, maxStrategies)
          /\ eCurrentText = text
          /\ Constructor(text)
    /\ eResults = <<>>
    /\ eTotalImprovement = 0
    /\ eCalls = <<>>
    /\ ePc = IF eStrategies = <<>> THEN "returned" ELSE "loop"
    /\ lastResult = NoResult
    /\ lastEnforce = NotCalled
    /\ loop = LoopIdle(eMax)
    /\ DetermineIdle
    /\ EvaluatorIdle
    /\ RetryIdle

\* The for loop abandoned at the first failed attempt.
EnforceApplyStoppingOnFailure ==
    /\ ePc = "loop"
    /\ \E response \in EnforcerResponses :
          LET strategy == eStrategies[Len(eResults) + 1]
              result   == ApplyStrategy(eCurrentText, strategy, response)
              after    == AfterAttempt(eCurrentText, eTotalImprovement, result)
          IN  /\ eCalls' = Append(eCalls, [strategy |-> strategy.name, text |-> eCurrentText])
              /\ eResults' = Append(eResults, result)
              /\ eCurrentText' = after.currentText
              /\ eTotalImprovement' = after.totalImprovement
              /\ ePc' = IF TargetScoreReached(after.currentText)
                           \/ ~result.success
                           \/ Len(eResults) + 1 = Len(eStrategies)
                        THEN "returned" ELSE "loop"
    /\ UNCHANGED <<eText, eMax, eStrategies>>

\* One pass of the for loop: apply the next strategy, keep or discard the
\* rewrite, stop when the target is reached or no strategy is left.
EnforceApply ==
    /\ ePc = "loop"
    /\ \E response \in EnforcerResponses :
          LET strategy == eStrategies[Len(eResults) + 1]
              result   == ApplyStrategy(eCurrentText, strategy, response)
              after    == AfterAttempt(eCurrentText, eTotalImprovement, result)
          IN  /\ eCalls' = Append(eCalls, [strategy |-> strategy.name, text |-> eCurrentText])
              /\ eResults' = Append(eResults, result)
              /\ eCurrentText' = after.currentText
              /\ eTotalImprovement' = after.totalImprovement
              /\ ePc' = IF TargetScoreReached(after.currentText)
                           \/ Len(eResults) + 1 = Len(eStrategies)
                        THEN "returned" ELSE "loop"
    /\ UNCHANGED <<eText, eMax, eStrategies>>

NextEnforce == EnforceApply /\ UNCHANGED <<ctrlVars, callVars, dsVars, evVars, rtVars>>

SpecEnforce == InitEnforce /\ [][NextEnforce]_vars

(***************************************************************************)
(* determineStrategies called on a metrics report.                         *)
(***************************************************************************)

InitDetermine ==
    /\ \E metrics \in MetricsReports : dsMetrics = metrics
    /\ dsNeeded = <<>>
    /\ dsPc = "called"
    /\ dsSuggestions = <<>>
    /\ Constructor(Plain)
    /\ lastResult = NoResult
    /\ lastEnforce = NotCalled
    /\ loop = LoopIdle(1)
    /\ EnforcerIdle
    /\ EvaluatorIdle
    /\ RetryIdle

DetermineReturn ==
    /\ dsPc = "called"
    /\ dsNeeded' = DetermineStrategies(dsMetrics)
    /\ dsPc' = "returned"
    /\ UNCHANGED <<dsMetrics, dsSuggestions>>

\* generateSuggestions on the same report; it always returns a summary line.
GenerateSuggestionsReturn ==
    /\ dsPc # "idle"
    /\ dsSuggestions = <<>>
    /\ dsSuggestions' = GenerateSuggestions(dsMetrics)
    /\ UNCHANGED <<dsMetrics, dsNeeded, dsPc>>

NextDetermine ==
    (DetermineReturn \/ GenerateSuggestionsReturn)
    /\ UNCHANGED <<ctrlVars, callVars, enfVars, evVars, rtVars>>

SpecDetermine == InitDetermine /\ [][NextDetermine]_vars

(***************************************************************************)
(* evaluate called on a text.                                              *)
(***************************************************************************)

InitEvaluate ==
    /\ \E c \in CountedTexts : evCounts = c
    /\ evMetrics = EvaluateCounts(EmptyCounts)
    /\ evPc = "called"
    /\ Constructor(Plain)
    /\ lastResult = NoResult
    /\ lastEnforce = NotCalled
    /\ loop = LoopIdle(1)
    /\ EnforcerIdle
    /\ DetermineIdle
    /\ RetryIdle

EvaluateReturn ==
    /\ evPc = "called"
    /\ evMetrics' = EvaluateCounts(evCounts)
    /\ evPc' = "returned"
    /\ UNCHANGED evCounts

NextEvaluate == EvaluateReturn /\ UNCHANGED <<ctrlVars, callVars, enfVars, dsVars, rtVars>>

SpecEvaluate == InitEvaluate /\ [][NextEvaluate]_vars

(***************************************************************************)
(* retryWithBackoff called on an operation.                                *)
(***************************************************************************)

InitRetry ==
    /\ rtRetries = MAX_RETRIES
    /\ rtOutcomes = <<>>
    /\ rtDelay = 0
    /\ rtResult = NoOutcome
    /\ rtPc = "running"
    /\ Constructor(Plain)
    /\ lastResult = NoResult
    /\ lastEnforce = NotCalled
    /\ loop = LoopIdle(1)
    /\ EnforcerIdle
    /\ DetermineIdle
    /\ EvaluatorIdle

\* One invocation of retryWithBackoff: run the operation once, then return its
\* response, throw its error, or wait and recurse with one retry less.
RetryWithBackoff ==
    /\ rtPc = "running"
    /\ \E outcome \in OperationOutcomes :
          /\ rtOutcomes' = Append(rtOutcomes, outcome)
          /\ IF outcome.ok
             THEN /\ rtPc' = "returned"
                  /\ rtResult' = outcome
                  /\ UNCHANGED <<rtRetries, rtDelay>>
             ELSE IF rtRetries = 0
             THEN /\ rtPc' = "threw"
                  /\ rtResult' = outcome
                  /\ UNCHANGED <<rtRetries, rtDelay>>
             ELSE IF IsRateLimit(outcome)
             THEN /\ rtDelay' = rtDelay + RETRY_DELAY * (MAX_RETRIES - rtRetries + 1)
                  /\ rtRetries' = rtRetries - 1
                  /\ UNCHANGED <<rtResult, rtPc>>
             ELSE /\ rtPc' = "threw"
                  /\ rtResult' = outcome
                  /\ UNCHANGED <<rtRetries, rtDelay>>

NextRetry == RetryWithBackoff /\ UNCHANGED <<ctrlVars, callVars, enfVars, dsVars, evVars>>

\* Each awaited run of the operation and each timer settles.
SpecRetry == InitRetry /\ [][NextRetry]_vars /\ WF_vars(NextRetry)


(***************************************************************************)
(* Properties of determineStrategies and enforceExcellence.                *)
(***************************************************************************)

\* Every target threshold is met and the score is at least 90.
Saturated(m) ==
    /\ Lt(m.glueWords, 40)
    /\ Lt(m.passiveVoice, 5)
    /\ Ge(m.dialogueBalance, 30) /\ Le(m.dialogueBalance, 50)
    /\ Lt(m.showVsTell, 10)
    /\ Gt(m.dynamicContent, 70)
    /\ m.aiPatternCount = 0
    /\ Ge(m.overallScore, 90 * Scale)

NothingDone ==
    /\ DetermineStrategies(Evaluate(eText)) = <<>>
    /\ eStrategies = <<>>
    /\ ePc = "returned"
    /\ eCalls = <<>>
    /\ eResults = <<>>
    /\ eCurrentText = eText
    /\ eTotalImprovement = 0

\* C7 as stated: on a text whose report meets every target threshold and scores
\* at least 90, determineStrategies returns the empty list and enforceExcellence
\* calls no rewriter and returns the input with totalImprovement 0.
C7_SaturatedDoesNothing == Saturated(Evaluate(eText)) => NothingDone

\* C7 amended: the same, for the saturated reports that also have
\* dynamicContent >= 75 and showVsTell <= 8 (the sensory-detail rule fires
\* below 75 and above 8, inside the target thresholds).
C7_SaturatedBeyondSensoryDoesNothing ==
    (/\ Saturated(Evaluate(eText))
     /\ Ge(Evaluate(eText).dynamicContent, 75)
     /\ Le(Evaluate(eText).showVsTell, 8)) => NothingDone

C7_Witness ==
    /\ Saturated(Evaluate(eText))
    /\ Evaluate(eText).dynamicContent = 75
    /\ Evaluate(eText).showVsTell = 8
    /\ ePc = "returned"

RuleTableOrder ==
    <<"AI Pattern Eliminator", "Show vs Tell Converter", "Dialogue Fixer",
      "Glue Word Reducer", "Dynamic Content Booster", "Passive Voice Eliminator",
      "Sentence Variation Enhancer", "Sensory Detail Enhancer">>

RuleIndex(name) == CHOOSE i \in 1..Len(RuleTableOrder) : RuleTableOrder[i] = name

\* The names of the strategies whose rule fires on a report.
FiringRules(m) ==
    {n \in {RuleTableOrder[i] : i \in 1..Len(RuleTableOrder)} :
        \/ n = "AI Pattern Eliminator" /\ m.aiPatternCount > 0
        \/ n = "Show vs Tell Converter" /\ Gt(m.showVsTell, 10)
        \/ n = "Dialogue Fixer" /\ (Lt(m.dialogueBalance, 30) \/ Gt(m.dialogueBalance, 50))
        \/ n = "Glue Word Reducer" /\ Gt(m.glueWords, 40)
        \/ n = "Dynamic Content Booster" /\ Lt(m.dynamicContent, 70)
        \/ n = "Passive Voice Eliminator" /\ Gt(m.passiveVoice, 5)
        \/ n = "Sentence Variation Enhancer" /\ Lt(m.overallScore, 90 * Scale)
        \/ n = "Sensory Detail Enhancer"
               /\ (Lt(m.dynamicContent, 75) \/ Gt(m.showVsTell, 8))}

PositionIn(list, name) == CHOOSE i \in 1..Len(list) : list[i].name = name

\* C8: determineStrategies returns exactly the strategies whose rule fires, each
\* once, by descending priority, equal priorities in rule-table order; with
\* patterns, telling and glue words all violated, AI Pattern Eliminator comes
\* before Show vs Tell Converter, which comes before Glue Word Reducer.
C8_StrategiesSortedStably ==
    dsPc = "returned" =>
        /\ {dsNeeded[i].name : i \in 1..Len(dsNeeded)} = FiringRules(dsMetrics)
        /\ Len(dsNeeded) = Cardinality(FiringRules(dsMetrics))
        /\ \A i \in 1..Len(dsNeeded) :
              /\ dsNeeded[i] \in {STRATEGIES[k] : k \in DOMAIN STRATEGIES}
              /\ \A j \in (i + 1)..Len(dsNeeded) :
                    \/ dsNeeded[i].priority > dsNeeded[j].priority
                    \/ /\ dsNeeded[i].priority = dsNeeded[j].priority
                       /\ RuleIndex(dsNeeded[i].name) < RuleIndex(dsNeeded[j].name)
        /\ (dsMetrics.aiPatternCount > 0 /\ Gt(dsMetrics.showVsTell, 10)
            /\ Gt(dsMetrics.glueWords, 40)) =>
              /\ dsNeeded[1].name = "AI Pattern Eliminator"
              /\ dsNeeded[1].priority = 10
              /\ dsNeeded[2].name = "Show vs Tell Converter"
              /\ dsNeeded[2].priority = 9
              /\ PositionIn(dsNeeded, "Show vs Tell Converter")
                    < PositionIn(dsNeeded, "Glue Word Reducer")
              /\ dsNeeded[PositionIn(dsNeeded, "Glue Word Reducer")].priority = 7

C8_Witness ==
    /\ dsPc = "returned"
    /\ dsMetrics.aiPatternCount > 0
    /\ Gt(dsMetrics.showVsTell, 10)
    /\ Gt(dsMetrics.glueWords, 40)
    /\ Lt(dsMetrics.dynamicContent, 70)
    /\ Len(dsNeeded) = 6
    /\ dsNeeded[3].name = "Glue Word Reducer"
    /\ dsNeeded[4].name = "Dynamic Content Booster"
    /\ dsNeeded[5].name = "Sentence Variation Enhancer"
    /\ dsNeeded[6].name = "Sensory Detail Enhancer"

\* The text that is current after attempt i of a direct enforceExcellence call.
CurrentAfter(i) == IF i < Len(eResults) THEN eResults[i + 1].originalText ELSE eCurrentText

\* C9: a rewrite becomes the current text only when the attempt succeeded and
\* its score is not below the score of the text it rewrote, otherwise the prior
\* text is kept; so the current text never scores below the input text.
C9_AcceptsOnlyNonRegressive ==
    /\ \A i \in 1..Len(eResults) :
          LET r == eResults[i]
          IN  IF r.success /\ Ge(Score(r.improvedText), Score(r.originalText))
              THEN CurrentAfter(i) = r.improvedText
              ELSE CurrentAfter(i) = r.originalText
    /\ (Len(eResults) > 0 => eResults[1].originalText = eText)
    /\ ~Lt(Score(eCurrentText), Score(eText))

C9_Witness ==
    /\ ePc = "returned"
    /\ Len(eResults) = 2
    /\ eResults[1].success
    /\ Lt(Score(eResults[1].improvedText), Score(eText))
    /\ eResults[2].success
    /\ Gt(Score(eResults[2].improvedText), Score(eText))
    /\ eCurrentText = eResults[2].improvedText

\* The part of C10 that holds with or without the early stop: one rewriter
\* call per selected strategy, in priority order, at most maxStrategies calls,
\* and the attempt list holds exactly the attempts made, in order.
OneCallPerStrategy ==
    /\ Len(eCalls) <= eMax
    /\ Len(eCalls) <= Len(eStrategies)
    /\ Len(eResults) = Len(eCalls)
    /\ eStrategies = Slice(DetermineStrategies(Evaluate(eText)), eMax)
    /\ \A i \in 1..Len(eCalls) :
          /\ eCalls[i].strategy = eStrategies[i].name
          /\ eResults[i].strategy = eCalls[i].strategy
          /\ eResults[i].originalText = eCalls[i].text
    /\ (ePc = "returned" =>
           \/ Len(eCalls) = Len(eStrategies)
           \/ Ge(Score(eCurrentText), 90 * Scale))

\* C10 as stated: ..., and no strategy is applied to a text whose overall score
\* has reached 90.
C10_NoStrategyAtTarget ==
    /\ OneCallPerStrategy
    /\ \A i \in 1..Len(eCalls) : ~Ge(Score(eCalls[i].text), 90 * Scale)

\* C10 amended: ..., and no strategy is applied after an attempt that left the
\* current text at 90 or more; the score of the input text is not looked at
\* before the first strategy, which is applied even to a text at 90 or more.
C10_NoStrategyAfterTargetReached ==
    /\ OneCallPerStrategy
    /\ \A i \in 2..Len(eCalls) : ~Ge(Score(eCalls[i].text), 90 * Scale)

C10_Witness ==
    /\ ePc = "returned"
    /\ eMax = 2
    /\ Len(eStrategies) = 2
    /\ Len(eCalls) = 1
    /\ ~Ge(Score(eText), 90 * Scale)
    /\ Ge(Score(eCurrentText), 90 * Scale)


(***************************************************************************)
(* Properties of the iteration manager.                                    *)
(***************************************************************************)

\* A step that is one runIteration call (made by a caller or by the loop).
IsRunIterationCall == loop'.pc = loop.pc

Rejected == "Lock violations. Reverted changes."

\* Metrics m regress a lock's metric, recorded at value v, beyond its tolerance.
RegressesBeyondTolerance(metric, v, m) ==
    \/ metric = "overallScore" /\ Gt(Sub(v, m.overallScore), 1 * Scale)
    \/ metric = "glueWords" /\ Gt(Sub(m.glueWords, v), 2)
    \/ metric = "showVsTell" /\ Gt(Sub(m.showVsTell, v), 2)
    \/ metric = "passiveVoice" /\ Gt(Sub(m.passiveVoice, v), 1)
    \/ metric = "dynamicContent" /\ Gt(Sub(v, m.dynamicContent), 3)
    \/ metric = "dialogueBalance" /\ (Lt(m.dialogueBalance, 30) \/ Gt(m.dialogueBalance, 50))
    \/ metric = "aiPatternCount" /\ m.aiPatternCount > v

\* C1: if a metric is locked and the enforcement result of a runIteration call
\* regresses it beyond its tolerance, the call is rejected and currentText, the
\* snapshots, totalIterations, the locks and the best-ever values are unchanged.
C1_RegressionBeyondToleranceRejected ==
    [][ \A i \in 1..Len(locks) :
          (/\ IsRunIterationCall
           /\ lastEnforce'.called /\ ~lastEnforce'.threw
           /\ locks[i].locked
           /\ RegressesBeyondTolerance(locks[i].metric, locks[i].currentValue,
                                       Evaluate(lastEnforce'.result.finalText)))
          => /\ ~lastResult'.success
             /\ lastResult'.message = Rejected
             /\ \E j \in 1..Len(lastResult'.violations) :
                   lastResult'.violations[j] = locks[i].metric
             /\ UNCHANGED ctrlVars ]_vars

C1_Witness ==
    /\ lastResult.message = Rejected
    /\ ~lastResult.success
    /\ lastResult.shouldContinue
    /\ lastResult.violations = <<"passiveVoice", "showVsTell">>
    /\ totalIterations > 0
    /\ Len(snapshots) = totalIterations + 1

\* C2: whatever the rewriter does, each committed snapshot's overallScore is
\* the same as or higher than its predecessor's, and the final score is not
\* lower than the initial score.
C2_ScoresNeverDecrease ==
    /\ \A k \in 1..(Len(snapshots) - 1) :
          \/ snapshots[k + 1].metrics.overallScore = snapshots[k].metrics.overallScore
          \/ Gt(snapshots[k + 1].metrics.overallScore, snapshots[k].metrics.overallScore)
    /\ ~Lt(finalScore, snapshots[1].metrics.overallScore)
    /\ finalScore = snapshots[Len(snapshots)].metrics.overallScore

C2_Witness ==
    /\ Len(snapshots) >= 4
    /\ Gt(snapshots[2].metrics.overallScore, snapshots[1].metrics.overallScore)
    /\ snapshots[3].metrics.overallScore = snapshots[2].metrics.overallScore
    /\ Gt(snapshots[4].metrics.overallScore, snapshots[3].metrics.overallScore)

\* The target threshold of a lockable metric.
MeetsThreshold(metric, m) ==
    \/ metric = "overallScore" /\ Ge(m.overallScore, 90 * Scale)
    \/ metric = "glueWords" /\ Lt(m.glueWords, 40)
    \/ metric = "passiveVoice" /\ Lt(m.passiveVoice, 5)
    \/ metric = "dialogueBalance" /\ Ge(m.dialogueBalance, 30) /\ Le(m.dialogueBalance, 50)
    \/ metric = "showVsTell" /\ Lt(m.showVsTell, 10)
    \/ metric = "dynamicContent" /\ Gt(m.dynamicContent, 70)
    \/ metric = "aiPatternCount" /\ m.aiPatternCount = 0

\* The value of a metric is within the lock tolerance of the value v recorded
\* when the metric locked.
WithinTolerance(metric, v, m) ==
    \/ metric = "overallScore" /\ Ge(m.overallScore, v - 1 * Scale)
    \/ metric = "glueWords" /\ Le(m.glueWords, v + 2)
    \/ metric = "passiveVoice" /\ Le(m.passiveVoice, v + 1)
    \/ metric = "dialogueBalance" /\ Ge(m.dialogueBalance, 30) /\ Le(m.dialogueBalance, 50)
    \/ metric = "showVsTell" /\ Le(m.showVsTell, v + 2)
    \/ metric = "dynamicContent" /\ Ge(m.dynamicContent, v - 3)
    \/ metric = "aiPatternCount" /\ m.aiPatternCount <= v

\* The snapshots committed after a lock was set (all of them for a lock set at
\* construction).
LaterSnapshots(lock) ==
    {k \in 1..Len(snapshots) : snapshots[k].iteration > lock.lockedAt}

C4_BoundedIteration ==
    /\ [](totalIterations <= 15 /\ Len(snapshots) = totalIterations + 1)
    /\ [][ (IsRunIterationCall /\ (totalIterations >= 15 \/ targetReached))
           => /\ ~lastResult'.shouldContinue
              /\ ~lastEnforce'.called
              /\ UNCHANGED ctrlVars ]_vars
    /\ [][ snapshots' # snapshots
           => /\ Len(snapshots) <= 15
              /\ ~Ge(snapshots[Len(snapshots)].metrics.overallScore, 90 * Scale) ]_vars

C4_Witness ==
    /\ totalIterations = 15
    /\ ~targetReached
    /\ lastResult.message = "Maximum iterations reached"
    /\ ~lastResult.shouldContinue

\* C5: runUntilTarget terminates; it issues no runIteration call after one
\* returned shouldContinue=false or success=false (a rejection or a caught
\* fault stops it), and it makes at most 16 runIteration calls.
C5_RunUntilTargetTerminates ==
    /\ [](loop.calls <= 16)
    /\ [][ loop'.calls # loop.calls
           => /\ loop'.calls = loop.calls + 1
              /\ (loop.calls > 0 => lastResult.shouldContinue /\ lastResult.success) ]_vars
    /\ (loop.pc = "running" ~> loop.pc = "returned")

C5_Witness ==
    /\ loop.pc = "returned"
    /\ loop.calls = 3
    /\ lastResult.message = Rejected
    /\ lastResult.shouldContinue

AiLockSetAtConstruction ==
    /\ locks[7].metric = "aiPatternCount"
    /\ locks[7].locked
    /\ locks[7].lockedAt = Undefined
    /\ snapshots[1].metrics.aiPatternCount = 0

OnePatternTexts == {t \in Texts : t.aiPatternCount = 1}

RejectedNamingPatterns ==
    /\ lastResult'.message = Rejected
    /\ \E j \in 1..Len(lastResult'.violations) : lastResult'.violations[j] = "aiPatternCount"
    /\ currentText' = currentText
    /\ totalIterations' = totalIterations

FailedAttemptsAreNeutral ==
    \A i \in 1..Len(eResults) :
        ~eResults[i].success =>
            /\ eResults[i].improvedText = eResults[i].originalText
            /\ eResults[i].error # NoError
            /\ eResults[i].improvedMetrics = eResults[i].originalMetrics
            /\ eResults[i].improvement.overallScoreDelta = 0
            /\ eResults[i].improvement.glueWordsDelta = 0
            /\ eResults[i].improvement.showVsTellDelta = 0
            /\ eResults[i].improvement.dynamicContentDelta = 0
            /\ eResults[i].improvement.dialogueBalanceDelta = 0
            /\ eResults[i].improvement.aiPatternsDelta = 0
            /\ CurrentAfter(i) = eResults[i].originalText

AllFailedReturnsInput ==
    (ePc = "returned" /\ \A i \in 1..Len(eResults) : ~eResults[i].success) =>
        /\ eCurrentText = eText
        /\ eTotalImprovement = 0

\* C11 as stated: a failed rewrite yields the original text, success=false, an
\* error message, improvedMetrics = originalMetrics and zero deltas;
\* enforceExcellence then proceeds to the next strategy; if every strategy
\* fails it returns the input text with totalImprovement 0.
C11_FailureThenNextStrategy ==
    /\ FailedAttemptsAreNeutral
    /\ AllFailedReturnsInput
    /\ (ePc = "returned" /\ Len(eResults) > 0 /\ ~eResults[Len(eResults)].success)
           => Len(eResults) = Len(eStrategies)

\* C11 amended: ...; enforceExcellence then proceeds to the next strategy
\* unless the current text scores 90 or more (after a failure that is only so
\* when the text the failed strategy was applied to already did), in which case
\* it stops; ...
C11_FailureThenNextStrategyBelowTarget ==
    /\ FailedAttemptsAreNeutral
    /\ AllFailedReturnsInput
    /\ (ePc = "returned" /\ Len(eResults) > 0 /\ ~eResults[Len(eResults)].success)
           => \/ Len(eResults) = Len(eStrategies)
              \/ Ge(Score(eResults[Len(eResults)].originalText), 90 * Scale)

C11_Witness ==
    /\ ePc = "returned"
    /\ Len(eStrategies) = 2
    /\ Len(eResults) = 2
    /\ ~eResults[1].success
    /\ ~eResults[2].success
    /\ eCurrentText = eText


\* This runIteration call ran the enforcer and the rewriter failed for every
\* strategy (at least one was selected).
AllStrategiesFailed ==
    /\ lastEnforce'.called /\ ~lastEnforce'.threw
    /\ Len(lastEnforce'.result.strategies) > 0
    /\ lastEnforce'.result \in
           EnforceExcellence(currentText, loop.maxStrategies, {RewriteFailed})

RejectedOrFaulted ==
    \/ lastEnforce'.called /\ lastEnforce'.threw
    \/ lastEnforce'.called /\ ~lastEnforce'.threw /\ lastResult'.message = Rejected

\* C12 as stated: after a lock-violation rejection, a caught fault, or an
\* iteration in which the rewriter failed for every strategy, currentText, the
\* snapshot list, the iteration counter, the locks and the best-ever values
\* are the same as before the call.
C12_FailuresLeaveStateIntact ==
    [][ (IsRunIterationCall /\ (RejectedOrFaulted \/ AllStrategiesFailed))
        => UNCHANGED <<currentText, snapshots, totalIterations, locks, bestEver>> ]_vars

\* C12 amended: a lock-violation rejection and a caught fault leave the whole
\* controller state as it was (success=false, shouldContinue=true).  An
\* iteration in which the rewriter failed for every strategy is not a failure
\* of runIteration: unless the locks reject the unchanged text, it is committed
\* as "No improvement": the counter advances by one and a snapshot holding the
\* current text is appended, while currentText, the best-ever values and the
\* locked flags stay as they were.
C12_OnlyRejectionAndFaultLeaveStateIntact ==
    [][ /\ (IsRunIterationCall /\ RejectedOrFaulted)
            => /\ UNCHANGED ctrlVars
               /\ ~lastResult'.success
               /\ lastResult'.shouldContinue
        /\ (IsRunIterationCall /\ AllStrategiesFailed /\ ~RejectedOrFaulted)
            => /\ lastResult'.success
               /\ lastResult'.message = "No improvement"
               /\ totalIterations' = totalIterations + 1
               /\ snapshots' = Append(snapshots,
                                      Snapshot(totalIterations + 1, currentText,
                                               Evaluate(currentText),
                                               lastEnforce'.result.strategies,
                                               GetLockedMetrics(locks')))
               /\ currentText' = currentText
               /\ bestEver' = bestEver
               /\ \A i \in 1..Len(locks) : locks'[i].locked = locks[i].locked ]_vars

C12_Witness ==
    /\ lastEnforce.called /\ ~lastEnforce.threw
    /\ Len(lastEnforce.result.strategies) > 0
    /\ lastEnforce.result \in
           EnforceExcellence(currentText, loop.maxStrategies, {RewriteFailed})
    /\ lastResult.success
    /\ lastResult.message = "No improvement"
    /\ totalIterations = 2
    /\ snapshots[3].text = currentText


(***************************************************************************)
(* Commits, locks, snapshots and best-ever values.                         *)
(***************************************************************************)

\* This runIteration call committed an iteration.
Committed == IsRunIterationCall /\ lastEnforce'.called /\ lastResult'.success

LastSnapshot == snapshots[Len(snapshots)]

\* C13: on every committed iteration the counter advances by exactly one and
\* one snapshot holding the enforcement result is appended; currentText becomes
\* the enforcement result if and only if the new overall score is strictly
\* greater than the previous snapshot's, and is otherwise unchanged.
C13_CommitFrame ==
    [][ /\ Committed =>
              LET finalText == lastEnforce'.result.finalText
                  new       == snapshots'[Len(snapshots')]
              IN  /\ totalIterations' = totalIterations + 1
                  /\ Len(snapshots') = Len(snapshots) + 1
                  /\ SubSeq(snapshots', 1, Len(snapshots)) = snapshots
                  /\ new.iteration = totalIterations'
                  /\ new.text = finalText
                  /\ new.metrics = Evaluate(finalText)
                  /\ IF Gt(Score(finalText), LastSnapshot.metrics.overallScore)
                     THEN currentText' = finalText
                     ELSE currentText' = currentText
        /\ (totalIterations' # totalIterations \/ snapshots' # snapshots
            \/ currentText' # currentText) => Committed ]_vars

C13_Witness ==
    /\ Len(snapshots) = 3
    /\ Gt(snapshots[2].metrics.overallScore, snapshots[1].metrics.overallScore)
    /\ currentText = snapshots[2].text
    /\ snapshots[3].metrics.overallScore = snapshots[2].metrics.overallScore
    /\ snapshots[3].text # currentText
    /\ totalIterations = 2
    /\ lastResult.success /\ ~lastResult.improved


LockableMetrics ==
    <<"overallScore", "glueWords", "passiveVoice", "dialogueBalance", "showVsTell",
      "dynamicContent", "aiPatternCount">>

\* C14: once a lock's locked flag is true it is never reset to false, and on
\* each commit every not-yet-locked metric whose threshold holds for the new
\* metrics becomes locked in that same commit.
C14_LocksMonotonic ==
    /\ [](MetricsOf(locks) = LockableMetrics)
    /\ [][ \A i \in 1..Len(locks) :
              /\ locks[i].locked => locks'[i].locked
              /\ (Committed /\ ~locks[i].locked) =>
                    (locks'[i].locked <=>
                        MeetsThreshold(locks[i].metric,
                                       Evaluate(lastEnforce'.result.finalText)))
              /\ ~Committed => locks'[i] = locks[i] ]_vars

C14_Witness ==
    /\ totalIterations = 2
    /\ locks[3].locked /\ locks[3].lockedAt = 1
    /\ ~MeetsThreshold("passiveVoice", Evaluate(currentText))
    /\ locks[2].locked /\ locks[2].lockedAt = Undefined
    /\ ~MeetsThreshold("glueWords", snapshots[3].metrics)
    /\ ~locks[1].locked


\* The iteration indices of the snapshots whose metrics meet a metric's threshold.
MeetingSnapshots(metric) ==
    {snapshots[k].iteration : k \in {j \in 1..Len(snapshots) :
                                        MeetsThreshold(metric, snapshots[j].metrics)}}

\* C15: every locked lock has lockedAt defined (0 for a metric whose threshold
\* holds at construction), equal to the index of the first snapshot whose
\* metrics meet the threshold.
C15_LockedAtIsFirstSatisfied ==
    \A i \in 1..Len(locks) :
        locks[i].locked =>
            /\ locks[i].lockedAt # Undefined
            /\ locks[i].lockedAt \in MeetingSnapshots(locks[i].metric)
            /\ \A k \in MeetingSnapshots(locks[i].metric) : locks[i].lockedAt <= k


\* The metrics whose lock was set by iteration k or before (a lock set at
\* construction counts from snapshot 0).
LockedAsOf(k) ==
    {locks[i].metric : i \in {j \in 1..Len(locks) :
                                 locks[j].locked /\ locks[j].lockedAt <= k}}

ListedIn(snapshot) == {snapshot.locked[j] : j \in 1..Len(snapshot.locked)}

\* C16: each snapshot's locked list equals the set of metric names whose lock
\* is true as of that snapshot, snapshot 0 included for the metrics that lock
\* at construction.
C16_SnapshotListsLockedMetrics ==
    \A k \in 1..Len(snapshots) :
        ListedIn(snapshots[k]) = LockedAsOf(snapshots[k].iteration)


\* The values one metric takes over the snapshots.
ValuesOf(metric) == {snapshots[k].metrics[metric] : k \in 1..Len(snapshots)}

\* v is the least (greatest) of a set of metric values.
IsMinimum(v, values) == v \in values /\ \A x \in values : ~Lt(x, v)

IsMaximum(v, values) == v \in values /\ \A x \in values : ~Gt(x, v)

DistanceTo40(x) == Abs(Sub(x, 40))

\* C17: the best-ever table holds, per metric, the direction-aware best value
\* over all snapshots (dialogueBalance: a value at the smallest distance to
\* 40); bestEver.iteration is the index of the first snapshot that attains the
\* maximum overallScore; a call that commits nothing leaves the table alone.
C17_BestEverOverSnapshots ==
    /\ [](/\ IsMinimum(bestEver.glueWords, ValuesOf("glueWords"))
          /\ IsMinimum(bestEver.passiveVoice, ValuesOf("passiveVoice"))
          /\ IsMinimum(bestEver.showVsTell, ValuesOf("showVsTell"))
          /\ IsMinimum(bestEver.wordRepetition, ValuesOf("wordRepetition"))
          /\ IsMinimum(bestEver.aiPatternCount, ValuesOf("aiPatternCount"))
          /\ IsMaximum(bestEver.overallScore, ValuesOf("overallScore"))
          /\ IsMaximum(bestEver.dynamicContent, ValuesOf("dynamicContent"))
          /\ IsMaximum(bestEver.reflectiveContent, ValuesOf("reflectiveContent"))
          /\ bestEver.dialogueBalance \in ValuesOf("dialogueBalance")
          /\ \A x \in ValuesOf("dialogueBalance") :
                ~Lt(DistanceTo40(x), DistanceTo40(bestEver.dialogueBalance))
          /\ bestEver.iteration \in 0..(Len(snapshots) - 1)
          /\ snapshots[bestEver.iteration + 1].metrics.overallScore = bestEver.overallScore
          /\ \A k \in 1..bestEver.iteration :
                snapshots[k].metrics.overallScore # bestEver.overallScore)
    /\ [][ (IsRunIterationCall /\ ~Committed) => bestEver' = bestEver ]_vars

C17_Witness ==
    /\ Len(snapshots) = 3
    /\ bestEver.iteration = 1
    /\ snapshots[3].metrics.overallScore = bestEver.overallScore
    /\ bestEver.glueWords = 38
    /\ bestEver.passiveVoice = 4
    /\ bestEver.showVsTell = 5
    /\ bestEver.dynamicContent = 72
    /\ bestEver.reflectiveContent = 50
    /\ bestEver.dialogueBalance = 40
    /\ lastResult.message = Rejected


\* C18: the snapshot list is append-only with strictly increasing indices:
\* snapshot i has iteration i, the list has totalIterations + 1 entries,
\* snapshot 0 holds the input text as constructed, and no step changes or
\* removes a snapshot once appended.
C18_SnapshotsAppendOnly ==
    /\ Len(snapshots) = 1
    /\ snapshots[1].text = currentText
    /\ snapshots[1].metrics = Evaluate(currentText)
    /\ snapshots[1].strategies = <<>>
    /\ [](/\ Len(snapshots) = totalIterations + 1
          /\ Len(snapshots) <= 16
          /\ \A i \in 1..Len(snapshots) : snapshots[i].iteration = i - 1)
    /\ [][ /\ Len(snapshots') \in {Len(snapshots), Len(snapshots) + 1}
           /\ SubSeq(snapshots', 1, Len(snapshots)) = snapshots ]_vars

C18_Witness ==
    /\ Len(snapshots) = 16
    /\ totalIterations = 15
    /\ snapshots[16].iteration = 15
    /\ snapshots[1].text # currentText
    /\ snapshots[16].text # currentText


(***************************************************************************)
(* Properties of evaluate.                                                 *)
(***************************************************************************)

RatioMetrics ==
    {"glueWords", "passiveVoice", "dialogueBalance", "showVsTell", "wordRepetition",
     "dynamicContent", "reflectiveContent"}

\* C19: evaluate on the empty input (no token, no sentence) returns every ratio
\* metric equal to 0 and overallScore equal to 0; no division by a zero count
\* yields an undefined value.
C19_EmptyTextScoresZero ==
    (evPc = "returned" /\ evCounts.words = 0 /\ evCounts.sentences = 0) =>
        /\ \A m \in RatioMetrics : evMetrics[m] = 0
        /\ evMetrics.overallScore = 0

\* C20: for every text, evaluate(text).overallScore lies in [0,100] and the
\* coherence penalty in [0,40].
C20_ScoreWithinBounds ==
    evPc = "returned" =>
        /\ Ge(evMetrics.overallScore, 0)
        /\ Le(evMetrics.overallScore, 100 * Scale)
        /\ evMetrics.coherencePenalty \in 0..40


\* The stated formula in hundredths of a point, before clamping and rounding.
FormulaHundredths(m) ==
    (100 - m.glueWords) * 15 + (100 - m.showVsTell) * 25 + m.dynamicContent * 25
    + (IF m.dialogueBalance >= 30 /\ m.dialogueBalance <= 50 THEN 1500 ELSE 0)
    + (IF m.aiPatternCount = 0 THEN 2000 ELSE 0)
    - m.coherencePenalty * 100

\* The stated formula, clamped to [0,100] and rounded once, in tenths.
FormulaScore(m) ==
    IF IsNaN(m.glueWords) \/ IsNaN(m.showVsTell) \/ IsNaN(m.dynamicContent) THEN NaN
    ELSE Clamp(MathRound(FormulaHundredths(m), 10))

\* C21: for every combination of metric values, overallScore equals the formula
\* (100 - glueWords)*0.15 + (100 - telling)*0.25 + dynamicContent*0.25
\* + dialogueBonus + patternBonus - coherencePenalty, clamped to [0,100] and
\* rounded once to one decimal place.
C21_ScoreIsFormulaRoundedOnce ==
    evPc = "returned" => evMetrics.overallScore = FormulaScore(evMetrics)


(***************************************************************************)
(* Properties of the deltas applyStrategy reports.                         *)
(***************************************************************************)

\* A delta is positive exactly when the metric moved in its improving
\* direction (undefined metric values are left aside).
SignFollows(delta, improvedBy) ==
    IsNaN(delta) \/ IsNaN(improvedBy) \/ (Gt(delta, 0) <=> Gt(improvedBy, 0))

DeltasFollowImprovement(result) ==
    LET o == result.originalMetrics
        n == result.improvedMetrics
        d == result.improvement
    IN  /\ SignFollows(d.overallScoreDelta, Sub(n.overallScore, o.overallScore))
        /\ SignFollows(d.glueWordsDelta, Sub(o.glueWords, n.glueWords))
        /\ SignFollows(d.showVsTellDelta, Sub(o.showVsTell, n.showVsTell))
        /\ SignFollows(d.dynamicContentDelta, Sub(n.dynamicContent, o.dynamicContent))
        /\ SignFollows(d.aiPatternsDelta, o.aiPatternCount - n.aiPatternCount)
        /\ SignFollows(d.dialogueBalanceDelta,
                       Sub(Abs(Sub(o.dialogueBalance, 40)), Abs(Sub(n.dialogueBalance, 40))))

\* C22: every per-metric delta reported by applyStrategy is positive exactly
\* when the metric moved in its improving direction; dialogueBalanceDelta is
\* |before - 40| - |after - 40|, positive iff the rewritten text's dialogue
\* ratio is closer to 40 than the original's.
C22_DeltasPositiveIffImproved ==
    \A i \in 1..Len(eResults) : DeltasFollowImprovement(eResults[i])


(***************************************************************************)
(* Properties of generateSuggestions.                                      *)
(***************************************************************************)

\* The metrics that fail their target threshold.
FailingTargets(m) ==
    {line \in {"glueWords", "passiveVoice", "dialogueBalance", "showVsTell",
               "dynamicContent", "aiPatterns", "coherence"} :
        CASE line = "glueWords" -> ~Lt(m.glueWords, 40)
          [] line = "passiveVoice" -> ~Lt(m.passiveVoice, 5)
          [] line = "dialogueBalance" ->
                ~(Ge(m.dialogueBalance, 30) /\ Le(m.dialogueBalance, 50))
          [] line = "showVsTell" -> ~Lt(m.showVsTell, 10)
          [] line = "dynamicContent" -> ~Gt(m.dynamicContent, 70)
          [] line = "aiPatterns" -> m.aiPatternCount # 0
          [] line = "coherence" -> m.coherencePenalty # 0}

SummaryLines == {"excellent", "good", "significant"}

MetricLines(lines) == {lines[i] : i \in 1..Len(lines)} \ SummaryLines

\* C23: generateSuggestions emits one line for each metric that fails its target
\* threshold (glue < 40, passive < 5, dialogue in [30,50], telling < 10,
\* dynamic > 70, patterns = 0, coherence issues = 0), for every metric value
\* including the boundary values, plus exactly one summary line chosen by score
\* band (>= 90, >= 80, otherwise).  Stated for the reports whose values are
\* all defined.
C23_OneLinePerFailedTarget ==
    (dsSuggestions # <<>> /\ ~IsNaN(dsMetrics.overallScore)) =>
        /\ MetricLines(dsSuggestions) = FailingTargets(dsMetrics)
        /\ Len(dsSuggestions) = Cardinality(FailingTargets(dsMetrics)) + 1
        /\ dsSuggestions[Len(dsSuggestions)] = SummaryLine(dsMetrics.overallScore)


(***************************************************************************)
(* Properties of the controller's terminal states and summary figures.     *)
(***************************************************************************)

\* C24: TargetReached is the success terminal state: in every reachable state
\* where targetReached is true, a runIteration call returns success=true with
\* shouldContinue=false, including when the target was reached on the 15th
\* committed iteration.
C24_TargetReachedReturnsSuccess ==
    [][ (IsRunIterationCall /\ targetReached)
        => (lastResult'.success /\ ~lastResult'.shouldContinue) ]_vars


\* The recorded value of a lock did not move in the metric's regressing
\* direction (the dialogue lock is checked against the fixed range [30,50]).
NotRegressed(metric, old, new) ==
    CASE metric = "overallScore" -> Ge(new, old)
      [] metric = "dynamicContent" -> Ge(new, old)
      [] metric = "dialogueBalance" -> Ge(new, 30) /\ Le(new, 50)
      [] OTHER -> Le(new, old)

\* C25: after a metric is locked, the lock's recorded current value never moves
\* in the regressing direction, and every snapshot committed afterwards has the
\* metric within the fixed tolerance of the recorded value (overallScore >=
\* value - 1, glueWords <= value + 2, passiveVoice <= value + 1, showVsTell <=
\* value + 2, dynamicContent >= value - 3, aiPatternCount <= value,
\* dialogueBalance in [30,50]); the slack does not accumulate over commits.
C25_LockedValueDoesNotDrift ==
    [][ \A i \in 1..Len(locks) :
           locks[i].locked =>
              /\ locks'[i].locked
              /\ NotRegressed(locks[i].metric, locks[i].currentValue, locks'[i].currentValue)
              /\ snapshots' # snapshots =>
                    /\ WithinTolerance(locks[i].metric, locks[i].currentValue,
                                       LastSnapshot'.metrics)
                    /\ WithinTolerance(locks[i].metric, locks'[i].currentValue,
                                       LastSnapshot'.metrics) ]_vars

\* Glue words locked at 38, then two commits at 40: the recorded value is
\* still 38 and the second tolerance was measured from it.
C25_Witness ==
    /\ locks[2].metric = "glueWords" /\ locks[2].locked /\ locks[2].currentValue = 38
    /\ \E k \in 2..(Len(snapshots) - 1) :
          /\ snapshots[k].metrics.glueWords = 40
          /\ snapshots[k + 1].metrics.glueWords = 40


(***************************************************************************)
(* Properties of retryWithBackoff.                                         *)
(***************************************************************************)

Attempts == Len(rtOutcomes)

\* C26: retryWithBackoff runs the operation at most 4 times (1 attempt plus
\* MAX_RETRIES = 3 retries), retries only after a rate-limit failure (status 429
\* or code rate_limit_exceeded), rethrows any other failure without retrying,
\* returns the first successful result, and always terminates with either a
\* result or a thrown error.
C26_RetryBoundedAndClassified ==
    /\ [](Attempts <= MAX_RETRIES + 1)
    /\ [](\A i \in 1..(Attempts - 1) :
             /\ ~rtOutcomes[i].ok
             /\ (rtOutcomes[i].status = 429 \/ rtOutcomes[i].code = "rate_limit_exceeded"))
    /\ []((rtPc = "running" /\ Attempts > 0) =>
             /\ ~rtOutcomes[Attempts].ok
             /\ (rtOutcomes[Attempts].status = 429
                 \/ rtOutcomes[Attempts].code = "rate_limit_exceeded")
             /\ Attempts <= MAX_RETRIES)
    /\ [](rtPc = "returned" => rtOutcomes[Attempts].ok /\ rtResult = rtOutcomes[Attempts])
    /\ [](rtPc = "threw" => ~rtOutcomes[Attempts].ok /\ rtResult = rtOutcomes[Attempts])
    /\ (rtPc = "running" ~> rtPc \in {"returned", "threw"})

\* Three rate-limit failures, then a fourth run that fails too: its error is
\* thrown although it is a rate-limit failure.
C26_Witness ==
    /\ rtPc = "threw"
    /\ Attempts = 4
    /\ rtResult.status = 429
    /\ rtRetries = 0
    /\ rtDelay = 2000 + 4000 + 6000


(***************************************************************************)
(* Properties of the figures getSummary reports.                           *)
(***************************************************************************)

\* C27: in every reachable controller state, history.finalScore (the latest
\* snapshot's overallScore, reported by getSummary) equals the overallScore of
\* the text returned by getCurrentText(), even after committed iterations that
\* did not replace currentText.
C27_FinalScoreIsScoreOfCurrentText ==
    /\ finalScore = GetCurrentMetrics.overallScore
    /\ finalScore = Score(currentText)

\* A committed iteration whose text was not adopted as currentText.
C27_Witness ==
    /\ totalIterations >= 1
    /\ lastResult.success /\ ~lastResult.improved
    /\ GetCurrentSnapshot.text # currentText
    /\ GetCurrentSnapshot.text = Slack
    /\ currentText = Polished


InitialScore == snapshots[1].metrics.overallScore

\* C28: in every reachable controller state the cumulative totalImprovement
\* equals finalScore minus the initial (snapshot 0) overallScore: rejected
\* iterations add nothing, and each committed iteration adds exactly the score
\* difference between its snapshot and the previous one.
C28_TotalImprovementIsScoreGain ==
    totalImprovement = Sub(finalScore, InitialScore)


(***************************************************************************)
(* Properties relating targetReached, the overallScore lock and currentText *)
(***************************************************************************)

\* C29: in every reachable controller state, targetReached is true if and only
\* if the overallScore lock is locked, if and only if the latest snapshot's
\* overallScore is >= 90; consequently targetReached never returns to false and
\* the overallScore lock's regression check is never exercised on a locked lock.
C29_TargetReachedIffScoreLocked ==
    /\ [](/\ locks[1].metric = "overallScore"
          /\ targetReached <=> locks[1].locked
          /\ targetReached <=> Ge(GetCurrentMetrics.overallScore, 90 * Scale))
    /\ [][targetReached => targetReached']_vars
    /\ [][(IsRunIterationCall /\ locks[1].locked)
              => (~lastEnforce'.called /\ UNCHANGED ctrlVars)]_vars

\* The score lock set by a commit, then one more call.
C29_Witness ==
    /\ targetReached
    /\ locks[1].locked /\ locks[1].lockedAt = 2
    /\ totalIterations = 2
    /\ locks[1].currentValue = 908
    /\ lastResult.message = "Target score already reached"


\* This runIteration call got the current text back unchanged from the enforcer.
EnforcementReturnedCurrentText ==
    /\ IsRunIterationCall
    /\ lastEnforce'.called
    /\ ~lastEnforce'.threw
    /\ lastEnforce'.result.finalText = currentText

\* C30: in every reachable controller state, a runIteration call whose
\* enforcement returns the current text unchanged is never rejected for a lock
\* violation: the metrics of currentText always satisfy every locked metric's
\* tolerance check, even when locks were set by a committed snapshot whose text
\* was not adopted as currentText.
C30_UnchangedTextNeverRejected ==
    /\ [](CheckLockViolations(locks, Evaluate(currentText)) = <<>>)
    /\ [][EnforcementReturnedCurrentText => lastResult'.message # Rejected]_vars

====
